---- MODULE Spec2Model ----
(***************************************************************************)
(* Model of util/generate-ami-list.py: one run of the script, from the     *)
(* parsing of --partition to the writing of the text report.               *)
(*                                                                         *)
(* Strings whose content the program inspects (region identifiers, distro  *)
(* tags, name fragments, image names) are sequences of one-character       *)
(* strings, so that `in` is a real substring test and sorted() a real      *)
(* lexicographic sort.  Opaque strings (image ids, account ids, JSON keys  *)
(* of the document) are TLA+ strings.  A dict / OrderedDict is a sequence  *)
(* of <<key, value>> pairs in insertion order.                             *)
(***************************************************************************)
EXTENDS Integers, Sequences, FiniteSets, TLC

VARIABLES partition, account_id, region, pc, exit_status, fault,
          enumerated, regions, responses, amis_json,
          cfn_file, cfn_file_0, txt_file, cfn_amis, writes

vars == <<partition, account_id, region, pc, exit_status, fault,
          enumerated, regions, responses, amis_json,
          cfn_file, cfn_file_0, txt_file, cfn_amis, writes>>

(***************************************************************************)
(* Bounds                                                                  *)
(***************************************************************************)
\* longest list of images one describe_images response holds
MaxImages == 2

(***************************************************************************)
(* String literals                                                         *)
(***************************************************************************)
alinux == <<"a","l","i","n","u","x">>
amzn == <<"a","m","z","n">>
centos6 == <<"c","e","n","t","o","s","6">>
centos7 == <<"c","e","n","t","o","s","7">>
ubuntu1404 == <<"u","b","u","n","t","u","1","4","0","4">>
ubuntu_1404 == <<"u","b","u","n","t","u","-","1","4","0","4">>
ubuntu1604 == <<"u","b","u","n","t","u","1","6","0","4">>
ubuntu_1604 == <<"u","b","u","n","t","u","-","1","6","0","4">>
us_east_1 == <<"u","s","-","e","a","s","t","-","1">>
us_gov_west_1 == <<"u","s","-","g","o","v","-","w","e","s","t","-","1">>
cn_north_1 == <<"c","n","-","n","o","r","t","h","-","1">>
amzn_hvm == <<"a","m","z","n","-","h","v","m">>
amzn_ebs == <<"a","m","z","n","-","e","b","s">>
centos7_hvm == <<"c","e","n","t","o","s","7","-","h","v","m">>
ubuntu_1804_hvm == <<"u","b","u","n","t","u","-","1","8","0","4","-","h","v","m">>

Digits == <<"0","1","2","3","4","5","6","7","8","9">>
Letters == <<"a","b","c","d","e","f","g","h","i","j","k","l","m",
             "n","o","p","q","r","s","t","u","v","w","x","y","z">>

\* code point of a character (the order Python compares str by)
Ord(c) ==
    IF c = "-" THEN 45
    ELSE IF \E i \in DOMAIN Digits : Digits[i] = c
         THEN 47 + (CHOOSE i \in DOMAIN Digits : Digits[i] = c)
         ELSE 96 + (CHOOSE i \in DOMAIN Letters : Letters[i] = c)

\* a < b on str: the first differing character decides, else the length
StrLess(a, b) ==
    LET n == IF Len(a) < Len(b) THEN Len(a) ELSE Len(b)
        diff == {i \in 1..n : a[i] # b[i]}
    IN IF diff = {} THEN Len(a) < Len(b)
       ELSE LET i == CHOOSE i \in diff : \A j \in diff : i <= j
            IN Ord(a[i]) < Ord(b[i])

\* `value in name` on str
Contains(value, name) ==
    \E i \in 0..(Len(name) - Len(value)) :
        SubSeq(name, i + 1, i + Len(value)) = value

(***************************************************************************)
(* dict / OrderedDict and sorted()                                         *)
(***************************************************************************)
Keys(d) == {d[j][1] : j \in DOMAIN d}

HasKey(d, k) == \E j \in DOMAIN d : d[j][1] = k

Get(d, k) == d[CHOOSE j \in DOMAIN d : d[j][1] = k][2]

\* d[k] = v: an existing key keeps its position, a new key goes last
DictSet(d, k, v) ==
    IF HasKey(d, k)
    THEN [j \in DOMAIN d |-> IF d[j][1] = k THEN <<k, v>> ELSE d[j]]
    ELSE Append(d, <<k, v>>)

\* d.update(other): the keys d has keep their position and take other's
\* value, the keys only other has follow in other's order
DictUpdate(d, other) ==
    [j \in DOMAIN d |-> IF HasKey(other, d[j][1])
                        THEN <<d[j][1], Get(other, d[j][1])>>
                        ELSE d[j]]
    \o SelectSeq(other, LAMBDA item : ~HasKey(d, item[1]))

\* the stable sorting permutation of a sequence of str: position i of the
\* sorted sequence holds the element at position StableOrder(ks)[i]
StableOrder(ks) ==
    LET pos(j) == 1 + Cardinality({k \in DOMAIN ks : StrLess(ks[k], ks[j])})
                    + Cardinality({k \in 1..(j - 1) : ks[k] = ks[j]})
    IN [i \in DOMAIN ks |-> CHOOSE j \in DOMAIN ks : pos(j) = i]

\* sorted(names) on a sequence of str
sorted_names(names) ==
    LET o == StableOrder(names) IN [i \in DOMAIN names |-> names[o[i]]]

\* sorted(d.items()): (key, value) tuples compare by key first, and the
\* keys of a dict are distinct
sorted_items(d) ==
    LET o == StableOrder([j \in DOMAIN d |-> d[j][1]])
    IN [i \in DOMAIN d |-> d[o[i]]]

(***************************************************************************)
(* The script's constants and the values its environment supplies          *)
(***************************************************************************)
\* distros: distro tag -> fragment of the image name, in the configured order
distros == << <<alinux, amzn>>,
              <<centos6, centos6>>,
              <<centos7, centos7>>,
              <<ubuntu1404, ubuntu_1404>>,
              <<ubuntu1604, ubuntu_1604>> >>

Partitions == {"commercial", "govcloud", "china", "unsupported"}

\* regions describe_regions may list, in any order
VisibleRegions == {us_east_1, cn_north_1}

\* regions the template may name before the run
TemplateRegions == {us_gov_west_1, cn_north_1}

\* images a describe_images response may hold
ImagesCatalog ==
    { [Name |-> amzn_hvm,        ImageId |-> "ami-111"],
      [Name |-> amzn_ebs,        ImageId |-> "ami-222"],
      [Name |-> centos7_hvm,     ImageId |-> "ami-333"],
      [Name |-> ubuntu_1804_hvm, ImageId |-> "ami-444"] }

\* sequences of distinct elements of S, of length at most n
DistinctSeqs(S, n) ==
    {s \in UNION {[1..m -> S] : m \in 0..n} :
        \A i, j \in DOMAIN s : i # j => s[i] # s[j]}

\* what one describe_images call does: it returns images or raises
Responses ==
    {[exc |-> "none", code |-> "", Images |-> im] :
        im \in DistinctSeqs(ImagesCatalog, MaxImages)}
    \cup
    {[exc |-> "ClientError", code |-> c, Images |-> <<>>] :
        c \in {"UnauthorizedOperation", "RequestLimitExceeded"}}
    \cup
    {[exc |-> "EndpointConnectionError", code |-> "", Images |-> <<>>]}

\* what describe_regions does: it lists distinct regions or raises
ProviderRegionLists == DistinctSeqs(VisibleRegions, Cardinality(VisibleRegions))

\* the distro maps regions of the template hold before the run
TemplateDistroMaps ==
    { << <<alinux, "ami-000">>, <<centos6, "ami-001">> >>,
      << <<centos7, "ami-002">>, <<alinux, "ami-003">> >> }

\* the AWSRegionOS2AMI mapping before the run: any of these regions, in any
\* order, each with one of these distro maps
TemplateAmis ==
    {s \in DistinctSeqs(TemplateRegions \X TemplateDistroMaps,
                        Cardinality(TemplateRegions)) :
        \A i, j \in DOMAIN s : i # j => s[i][1] # s[j][1]}

\* the template file before the run: a JSON document, possibly without the
\* mapping or without Mappings, or text that is no JSON
TemplateFiles ==
    {[wellformed |-> TRUE,
      data |-> << <<"AWSTemplateFormatVersion", "2010-09-09">>,
                  <<"Mappings", << <<"AWSRegionOS2AMI", a>>,
                                   <<"OSFeatures", <<>> >> >> >>,
                  <<"Resources", <<>> >> >>] : a \in TemplateAmis}
    \cup
    {[wellformed |-> TRUE,
      data |-> << <<"AWSTemplateFormatVersion", "2010-09-09">>,
                  <<"Mappings", << <<"OSFeatures", <<>> >> >> >> >>],
     [wellformed |-> TRUE,
      data |-> << <<"AWSTemplateFormatVersion", "2010-09-09">> >>],
     [wellformed |-> FALSE, data |-> <<>>]}

\* the text report a previous run left
OldTxt == << <<"# ", alinux>>, <<us_east_1, ": ", "ami-000">> >>

(***************************************************************************)
(* __main__: the partition table                                           *)
(***************************************************************************)
\* variant: the else branch is missing, every partition is taken
recognised_any(p) == TRUE

recognised(p) == p \in {"commercial", "govcloud", "china"}

account_id_of(p) ==
    CASE p = "commercial" -> "247102896272"
      [] p = "govcloud"   -> "124026578433"
      [] p = "china"      -> "036028979999"
      [] OTHER            -> ""

region_of(p) ==
    CASE p = "commercial" -> us_east_1
      [] p = "govcloud"   -> us_gov_west_1
      [] p = "china"      -> cn_north_1
      [] OTHER            -> <<>>

(***************************************************************************)
(* get_ami_list                                                            *)
(***************************************************************************)
\* variant: the first matching image is kept, not the last
record_match_first(amis, key, image) ==
    IF HasKey(amis, key) THEN amis ELSE DictSet(amis, key, image.ImageId)

\* amis[key] = image.get("ImageId")
record_match(amis, key, image) == DictSet(amis, key, image.ImageId)

RECURSIVE match_distros(_, _, _)
\* for key, value in distros.items(): if value in image.get("Name"): ...
match_distros(amis, image, ds) ==
    IF ds = <<>> THEN amis
    ELSE match_distros(
             IF Contains(Head(ds)[2], image.Name)
             THEN record_match(amis, Head(ds)[1], image)
             ELSE amis,
             image, Tail(ds))

RECURSIVE collect_amis(_, _)
\* for image in images.get("Images"): ...
collect_amis(amis, images) ==
    IF images = <<>> THEN amis
    ELSE collect_amis(match_distros(amis, Head(images), distros), Tail(images))

\* variant: the region is recorded without the len(amis) test
record_region_always(aj, region_name, amis) ==
    DictSet(aj, region_name, sorted_items(amis))

\* if len(amis) == 0: warn, else: amis_json[region_name] = sorted amis
record_region(aj, region_name, amis) ==
    IF Len(amis) = 0 THEN aj
    ELSE DictSet(aj, region_name, sorted_items(amis))

\* variant: no except clause
caught_nothing(exc) == FALSE

\* except ClientError: pass
caught(exc) == exc = "ClientError"

(***************************************************************************)
(* convert_json_to_txt                                                     *)
(***************************************************************************)
RECURSIVE region_lines(_, _)
\* for region, amis in amis_json.items(): if key in amis: a line
region_lines(key, items) ==
    IF items = <<>> THEN <<>>
    ELSE (IF HasKey(Head(items)[2], key)
          THEN << <<Head(items)[1], ": ", Get(Head(items)[2], key)>> >>
          ELSE <<>>)
         \o region_lines(key, Tail(items))

RECURSIVE distro_sections(_, _)
\* for key, value in distros.items(): a header, then the regions' lines
distro_sections(ds, aj) ==
    IF ds = <<>> THEN <<>>
    ELSE << <<"# ", Head(ds)[1]>> >> \o region_lines(Head(ds)[1], aj)
         \o distro_sections(Tail(ds), aj)

RECURSIVE distro_sections_nonempty(_, _)
\* variant: a tag without entries gets no header
distro_sections_nonempty(ds, aj) ==
    IF ds = <<>> THEN <<>>
    ELSE (IF region_lines(Head(ds)[1], aj) = <<>> THEN <<>>
          ELSE << <<"# ", Head(ds)[1]>> >> \o region_lines(Head(ds)[1], aj))
         \o distro_sections_nonempty(Tail(ds), aj)

convert_json_to_txt_nonempty(aj) == distro_sections_nonempty(distros, aj)

\* the report as its sequence of lines
convert_json_to_txt(aj) == distro_sections(distros, aj)

(***************************************************************************)
(* update_cfn_template                                                     *)
(***************************************************************************)
\* variant: the discovery replaces the mapping
merge_amis_assign(current_amis, amis_to_update) == amis_to_update

\* variant: a region in both keeps its old tags and takes the new ones
merge_amis_per_tag(current_amis, amis_to_update) ==
    DictUpdate(current_amis,
        [j \in DOMAIN amis_to_update |->
            IF HasKey(current_amis, amis_to_update[j][1])
            THEN <<amis_to_update[j][1],
                   DictUpdate(Get(current_amis, amis_to_update[j][1]),
                              amis_to_update[j][2])>>
            ELSE amis_to_update[j]])

\* current_amis.update(amis_to_update)
merge_amis(current_amis, amis_to_update) ==
    DictUpdate(current_amis, amis_to_update)

\* variant: the mapping is written in update order
order_amis_unsorted(current_amis) == current_amis

\* OrderedDict(sorted(current_amis.items()))
order_amis(current_amis) == sorted_items(current_amis)

\* variant: the file is opened for writing before the mapping is looked up
update_cfn_template_open_first(file, amis_to_update) ==
    LET truncated == [wellformed |-> FALSE, data |-> <<>>]
    IN IF ~file.wellformed
       THEN [raised |-> TRUE, opened |-> FALSE, file |-> file, ret |-> <<>>]
       ELSE IF \/ ~HasKey(file.data, "Mappings")
               \/ ~HasKey(Get(file.data, "Mappings"), "AWSRegionOS2AMI")
       THEN [raised |-> TRUE, opened |-> TRUE, file |-> truncated, ret |-> <<>>]
       ELSE LET mappings == Get(file.data, "Mappings")
                ordered_amis == sorted_items(
                    DictUpdate(Get(mappings, "AWSRegionOS2AMI"), amis_to_update))
            IN [raised |-> FALSE,
                opened |-> TRUE,
                file |-> [wellformed |-> TRUE,
                          data |-> DictSet(file.data, "Mappings",
                                       DictSet(mappings, "AWSRegionOS2AMI",
                                               ordered_amis))],
                ret |-> ordered_amis]

\* the call's outcome: whether it raised, whether the file was opened for
\* writing, the file's content afterwards and the value returned
update_cfn_template(file, amis_to_update) ==
    LET raises == [raised |-> TRUE, opened |-> FALSE, file |-> file, ret |-> <<>>]
    IN IF ~file.wellformed THEN raises
       ELSE IF ~HasKey(file.data, "Mappings") THEN raises
       ELSE IF ~HasKey(Get(file.data, "Mappings"), "AWSRegionOS2AMI") THEN raises
       ELSE LET mappings == Get(file.data, "Mappings")
                current_amis == merge_amis(Get(mappings, "AWSRegionOS2AMI"),
                                           amis_to_update)
                ordered_amis == order_amis(current_amis)
            IN [raised |-> FALSE,
                opened |-> TRUE,
                file |-> [wellformed |-> TRUE,
                          data |-> DictSet(file.data, "Mappings",
                                       DictSet(mappings, "AWSRegionOS2AMI",
                                               ordered_amis))],
                ret |-> ordered_amis]

(***************************************************************************)
(* The run                                                                 *)
(***************************************************************************)
Init ==
    /\ partition \in Partitions
    /\ account_id = ""
    /\ region = <<>>
    /\ pc = "start"
    /\ exit_status = -1
    /\ fault = "none"
    /\ enumerated = FALSE
    /\ regions = <<>>
    /\ responses = <<>>
    /\ amis_json = <<>>
    /\ cfn_file \in TemplateFiles
    /\ cfn_file_0 = cfn_file
    /\ txt_file = OldTxt
    /\ cfn_amis = <<>>
    /\ writes = <<>>

\* the if / elif / else on args.partition
ParseArgs ==
    /\ pc = "start"
    /\ IF recognised(partition)
       THEN /\ account_id' = account_id_of(partition)
            /\ region' = region_of(partition)
            /\ pc' = "enumerate"
            /\ UNCHANGED <<exit_status, fault>>
       ELSE /\ pc' = "exit"
            /\ exit_status' = 1
            /\ fault' = "partition"
            /\ UNCHANGED <<account_id, region>>
    /\ UNCHANGED <<partition, enumerated, regions, responses, amis_json,
                   cfn_file, cfn_file_0, txt_file, cfn_amis, writes>>

\* regions = get_all_aws_regions(region)
GetAllAwsRegions ==
    /\ pc = "enumerate"
    /\ enumerated' = TRUE
    /\ \E raised \in BOOLEAN :
         IF raised
         THEN /\ pc' = "exit"
              /\ exit_status' = 1
              /\ fault' = "enumerate"
              /\ UNCHANGED regions
         ELSE /\ \E listed \in ProviderRegionLists :
                    regions' = sorted_names(listed)
              /\ pc' = "discover"
              /\ UNCHANGED <<exit_status, fault>>
    /\ UNCHANGED <<partition, account_id, region, responses, amis_json,
                   cfn_file, cfn_file_0, txt_file, cfn_amis, writes>>

\* one iteration of get_ami_list's loop over the regions
DescribeImages ==
    /\ pc = "discover"
    /\ Len(responses) < Len(regions)
    /\ LET region_name == regions[Len(responses) + 1]
       IN \E resp \in Responses :
            /\ responses' = Append(responses, resp)
            /\ IF resp.exc = "none"
               THEN /\ amis_json' = record_region(amis_json, region_name,
                                        collect_amis(<<>>, resp.Images))
                    /\ UNCHANGED <<pc, exit_status, fault>>
               ELSE IF caught(resp.exc)
               THEN UNCHANGED <<amis_json, pc, exit_status, fault>>
               ELSE /\ pc' = "exit"
                    /\ exit_status' = 1
                    /\ fault' = "discover"
                    /\ UNCHANGED amis_json
    /\ UNCHANGED <<partition, account_id, region, enumerated, regions,
                   cfn_file, cfn_file_0, txt_file, cfn_amis, writes>>

\* return amis_json
GetAmiListReturn ==
    /\ pc = "discover"
    /\ Len(responses) = Len(regions)
    /\ pc' = "merge"
    /\ UNCHANGED <<partition, account_id, region, exit_status, fault,
                   enumerated, regions, responses, amis_json,
                   cfn_file, cfn_file_0, txt_file, cfn_amis, writes>>

\* cfn_amis = update_cfn_template(...)
UpdateCfnTemplate ==
    /\ pc = "merge"
    /\ LET out == update_cfn_template(cfn_file, amis_json)
       IN /\ cfn_file' = out.file
          /\ writes' = IF out.opened THEN Append(writes, "cfn") ELSE writes
          /\ IF out.raised
             THEN /\ pc' = "exit"
                  /\ exit_status' = 1
                  /\ fault' = "merge"
                  /\ UNCHANGED cfn_amis
             ELSE /\ cfn_amis' = out.ret
                  /\ pc' = "report"
                  /\ UNCHANGED <<exit_status, fault>>
    /\ UNCHANGED <<partition, account_id, region, enumerated, regions,
                   responses, amis_json, cfn_file_0, txt_file>>

\* update_amis_txt(...), then the script ends
UpdateAmisTxt ==
    /\ pc = "report"
    /\ txt_file' = convert_json_to_txt(cfn_amis)
    /\ writes' = Append(writes, "txt")
    /\ pc' = "exit"
    /\ exit_status' = 0
    /\ UNCHANGED <<partition, account_id, region, fault, enumerated, regions,
                   responses, amis_json, cfn_file, cfn_file_0, cfn_amis>>

Next ==
    \/ ParseArgs
    \/ GetAllAwsRegions
    \/ DescribeImages
    \/ GetAmiListReturn
    \/ UpdateCfnTemplate
    \/ UpdateAmisTxt

Spec == Init /\ [][Next]_vars

(***************************************************************************)
(* Properties                                                              *)
(***************************************************************************)
\* the AWSRegionOS2AMI mapping of a template file that has one
MappingOf(file) == Get(Get(file.data, "Mappings"), "AWSRegionOS2AMI")

\* update_cfn_template has returned
Merged == writes # <<>>

\* the script ended without a fault
Succeeded == pc = "exit" /\ exit_status = 0

\* get_ami_list has returned
Discovered == pc \in {"merge", "report"} \/ (pc = "exit" /\ fault \in {"none", "merge"})

\* the keys of an ordered mapping, in its order
KeySeq(d) == [j \in DOMAIN d |-> d[j][1]]

\* strictly ascending in the lexicographic order of str
Ascending(ks) == \A j \in 1..(Len(ks) - 1) : StrLess(ks[j], ks[j + 1])

\* the positions of the images of a response whose name holds the fragment
Matching(images, fragment) ==
    {i \in DOMAIN images : Contains(fragment, images[i].Name)}

SetMax(S) == CHOOSE i \in S : \A j \in S : j <= i

\* C1: merging a discovery set whose only region is X leaves every other
\* region Y of the template present, with exactly the distro map it had,
\* in the value returned and in the file written.
C1_UnrelatedRegionsUntouched ==
    (Merged /\ Len(amis_json) = 1) =>
        \A Y \in Keys(MappingOf(cfn_file_0)) \ Keys(amis_json) :
            /\ HasKey(cfn_amis, Y)
            /\ Get(cfn_amis, Y) = Get(MappingOf(cfn_file_0), Y)
            /\ HasKey(MappingOf(cfn_file), Y)
            /\ Get(MappingOf(cfn_file), Y) = Get(MappingOf(cfn_file_0), Y)

C1_Witness ==
    /\ Merged
    /\ Len(amis_json) = 1
    /\ Len(MappingOf(cfn_file_0)) = 2
    /\ Keys(amis_json) \subseteq Keys(MappingOf(cfn_file_0))

\* C2: a region that is in the discovery set and in the template holds,
\* after the merge, exactly the discovered distro map: no tag of the old
\* entry survives unless the discovery has it.
C2_RegionReplacedWholesale ==
    Merged =>
        \A X \in Keys(amis_json) \cap Keys(MappingOf(cfn_file_0)) :
            /\ Get(cfn_amis, X) = Get(amis_json, X)
            /\ Get(MappingOf(cfn_file), X) = Get(amis_json, X)

C2_Witness ==
    /\ Merged
    /\ \E X \in Keys(amis_json) \cap Keys(MappingOf(cfn_file_0)) :
          \E tag \in Keys(Get(MappingOf(cfn_file_0), X)) :
              /\ ~HasKey(Get(amis_json, X), tag)
              /\ ~HasKey(Get(cfn_amis, X), tag)

\* C3: for a region whose query succeeded and a configured tag, the result
\* holds an id under (region, tag) iff the tag's fragment is a substring of
\* the name of a returned image, and the id is the last such image's.
C3_LastMatchRecorded ==
    \A j \in DOMAIN responses :
        responses[j].exc = "none" =>
            \A k \in DOMAIN distros :
                LET tag == distros[k][1]
                    images == responses[j].Images
                    M == Matching(images, distros[k][2])
                    recorded == /\ HasKey(amis_json, regions[j])
                                /\ HasKey(Get(amis_json, regions[j]), tag)
                IN /\ recorded <=> M # {}
                   /\ recorded =>
                        Get(Get(amis_json, regions[j]), tag)
                            = images[SetMax(M)].ImageId

C3_Witness ==
    \E j \in DOMAIN responses :
        /\ responses[j].exc = "none"
        /\ Len(responses[j].Images) = 2
        /\ Matching(responses[j].Images, amzn) = {1, 2}
        /\ responses[j].Images[2].ImageId = "ami-111"
        /\ Get(Get(amis_json, regions[j]), alinux) = "ami-111"

\* C4: a region is a key of get_ami_list's mapping iff its query returned
\* an image whose name holds a configured fragment, and every region that
\* is a key has a non-empty distro map.
C4_RegionPresentIffMatched ==
    /\ \A j \in DOMAIN regions :
          HasKey(amis_json, regions[j]) <=>
              /\ j <= Len(responses)
              /\ responses[j].exc = "none"
              /\ \E k \in DOMAIN distros :
                    Matching(responses[j].Images, distros[k][2]) # {}
    /\ \A j \in DOMAIN amis_json :
          /\ amis_json[j][1] \in {regions[i] : i \in DOMAIN regions}
          /\ Len(amis_json[j][2]) > 0

C4_Witness ==
    /\ Discovered
    /\ Len(regions) = 2
    /\ responses[1].exc = "none"
    /\ Len(responses[1].Images) = 1
    /\ ~HasKey(amis_json, regions[1])
    /\ HasKey(amis_json, regions[2])

\* a describe_images call the provider rejected for authorization reasons
Unauthorized(resp) ==
    resp.exc = "ClientError" /\ resp.code = "UnauthorizedOperation"

\* C5: a query rejected for authorization reasons leaves the results
\* recorded so far as they are and the loop running; when get_ami_list
\* returns, every region was queried and no rejected region is a key.
C5_UnauthorizedRegionSkipped ==
    /\ [][(/\ Len(responses') = Len(responses) + 1
           /\ Unauthorized(responses'[Len(responses')]))
          => (/\ amis_json' = amis_json
              /\ pc' = "discover"
              /\ fault' = "none")]_vars
    /\ [](Discovered =>
            /\ Len(responses) = Len(regions)
            /\ \A j \in DOMAIN responses :
                  Unauthorized(responses[j]) => ~HasKey(amis_json, regions[j]))

C5_Witness ==
    /\ Discovered
    /\ Len(regions) = 2
    /\ Unauthorized(responses[1])
    /\ responses[2].exc = "none"
    /\ HasKey(amis_json, regions[2])

\* C6: an error of a region's query that is no authorization rejection
\* ends the run: no later region is queried and no file is written.
C6_OtherErrorsFatal ==
    \A j \in DOMAIN responses :
        (responses[j].exc # "none" /\ ~Unauthorized(responses[j])) =>
            /\ pc = "exit"
            /\ fault = "discover"
            /\ Len(responses) = j
            /\ writes = <<>>

\* C7: after update_cfn_template the mapping returned is the mapping
\* written, its keys ascend strictly in lexicographic order, and they are
\* the template's regions together with the discovered ones.
C7_MergedKeysSorted ==
    Merged =>
        /\ MappingOf(cfn_file) = cfn_amis
        /\ Ascending(KeySeq(cfn_amis))
        /\ Keys(cfn_amis) = Keys(MappingOf(cfn_file_0)) \cup Keys(amis_json)

C7_Witness ==
    /\ Merged
    /\ KeySeq(MappingOf(cfn_file_0)) = <<us_gov_west_1, cn_north_1>>
    /\ KeySeq(amis_json) = <<us_east_1>>
    /\ KeySeq(cfn_amis) = <<cn_north_1, us_east_1, us_gov_west_1>>

\* the positions of the header lines of the report
Headers == {i \in DOMAIN txt_file : Len(txt_file[i]) = 2}

\* the position of the k-th header line
HeaderAt(k) ==
    CHOOSE i \in Headers : Cardinality({h \in Headers : h < i}) = k - 1

\* the lines that follow the k-th header, up to the next header
Section(k) ==
    SubSeq(txt_file, HeaderAt(k) + 1,
           IF k = Len(distros) THEN Len(txt_file) ELSE HeaderAt(k + 1) - 1)

\* C8: the report holds one header per configured tag, in the configured
\* order; below the header of a tag, one line '<region>: <image id>' for
\* each region of the merged mapping that has the tag and for no other, in
\* ascending region order.
C8_ReportByTagThenRegion ==
    Succeeded =>
        /\ Cardinality(Headers) = Len(distros)
        /\ \A k \in DOMAIN distros :
              LET tag == distros[k][1]
                  lines == Section(k)
                  having == {r \in Keys(cfn_amis) : HasKey(Get(cfn_amis, r), tag)}
              IN /\ txt_file[HeaderAt(k)] = <<"# ", tag>>
                 /\ Len(lines) = Cardinality(having)
                 /\ \A i \in DOMAIN lines :
                       /\ lines[i][1] \in having
                       /\ lines[i][2] = ": "
                       /\ lines[i][3] = Get(Get(cfn_amis, lines[i][1]), tag)
                 /\ Ascending([i \in DOMAIN lines |-> lines[i][1]])

C8_Witness ==
    /\ Succeeded
    /\ Len(Section(1)) = 3
    /\ Len(Section(2)) = 1
    /\ Len(Section(4)) = 0

\* C9: with a --partition other than commercial, govcloud or china the
\* script does nothing but exit with status 1: no region is enumerated or
\* queried and both files stay as they were.
C9_UnsupportedPartitionExits ==
    partition \notin {"commercial", "govcloud", "china"} =>
        /\ pc \in {"start", "exit"}
        /\ pc = "exit" => exit_status = 1
        /\ ~enumerated
        /\ responses = <<>>
        /\ writes = <<>>
        /\ cfn_file = cfn_file_0
        /\ txt_file = OldTxt

C9_Witness ==
    /\ partition = "unsupported"
    /\ pc = "exit"
    /\ exit_status = 1
    /\ fault = "partition"

\* the stages, in their order
StageOrder == <<"start", "enumerate", "discover", "merge", "report">>

StageIndex(p) == CHOOSE i \in DOMAIN StageOrder : StageOrder[i] = p

\* C10: the stages follow one another in the order enumerate, discover,
\* merge, report; the template is written before the report; a fault of
\* the merge stage (a template that is no JSON, or lacks Mappings or the
\* mapping) leaves the template never opened for writing and both files as
\* they were.
C10_StagesInOrder ==
    /\ [][pc' # pc => \/ pc' = "exit"
                      \/ StageIndex(pc') = StageIndex(pc) + 1]_vars
    /\ [](/\ writes \in {<<>>, <<"cfn">>, <<"cfn", "txt">>}
          /\ txt_file # OldTxt => writes = <<"cfn", "txt">>
          /\ fault = "merge" =>
                /\ writes = <<>>
                /\ cfn_file = cfn_file_0
                /\ txt_file = OldTxt
          /\ (pc = "exit" /\ fault = "none") => writes = <<"cfn", "txt">>)

C10_Witness ==
    /\ fault = "merge"
    /\ cfn_file_0.wellformed
    /\ HasKey(cfn_file_0.data, "Mappings")
    /\ amis_json # <<>>
    /\ writes = <<>>

====
